---- MODULE Spec2Model ----
(***************************************************************************)
(* Recurring-vs-new customer recognition: the shared RecognitionService    *)
(* (services.py), the batch handlers that drive it (api.py,                *)
(* streamlit_app.py) and the index loader (utils.py).                      *)
(*                                                                         *)
(* Embeddings are unit-length float vectors in the program.  Here they are *)
(* integer vectors that all have the same squared norm (Scale), and a      *)
(* similarity is their inner product, so a similarity s of the program is  *)
(* the integer s * Scale: 1.0 is 10, THRESHOLD 0.7 is 7.                   *)
(***************************************************************************)
EXTENDS Integers, Sequences, FiniteSets, TLC

(* ------------------------------ bounds --------------------------------- *)
MaxFiles == 2
MaxFaces == 2
MaxInit == 1
MaxReloads == 1

Threads == {"h1", "h2"}

(* --------------------------- embeddings -------------------------------- *)
eA == <<3, 1, 0, 0>>
eA2 == <<3, 0, 1, 0>>
eB == <<2, 1, 2, 1>>

Emb == {eA, eA2, eB}

Dot(a, b) == a[1] * b[1] + a[2] * b[2] + a[3] * b[3] + a[4] * b[4]

Scale == Dot(eA, eA)

THRESHOLD == 7

None == "None"
NoPath == <<>>

VARIABLES
    fileExists,   \* os.path.exists(FAISS_INDEX_PATH)
    disk,         \* the entries of the persisted index file
    artifacts,    \* crops saved under CUSTOMER_DIR, named by the face they came from
    cls_instance, \* RecognitionService._instance: None or a service
    services,     \* the services constructed so far (a service is named by its constructor)
    svcIndex,     \* service -> entries of its self.index
    reloads,      \* reload_index calls made so far
    tmpCount,     \* temporary files that exist
    pc,           \* handler -> its position
    svc,          \* handler -> its local `service`
    nfiles,       \* handler -> len(files)
    fidx,         \* handler -> position of the file in hand (1-based, 0 before the loop)
    outputs,      \* handler -> its `outputs` list
    nfaces,       \* handler -> len(faces) of the image in hand
    faceNo,       \* handler -> position of the face in hand
    results,      \* handler -> `results` of the recognize_image_path call in hand
    cur,          \* handler -> emb, similarity, match_idx of the face in hand
    appended,     \* history: faces whose embedding index.add has appended
    log,          \* history: handler -> what happened to each face it processed
    fileLog,      \* history: handler -> what happened to each file it processed
    fimg,         \* detect_faces_and_crop: img_w, img_h of the image being filtered
    fcount,       \* detect_faces_and_crop: detections gone through so far
    fdet,         \* detect_faces_and_crop: facial_area of the last detection gone through
    fverdict,     \* detect_faces_and_crop: what became of that detection
    cropped_faces \* detect_faces_and_crop: the crops kept so far

vars == <<fileExists, disk, artifacts, cls_instance, services, svcIndex, reloads,
          tmpCount, pc, svc, nfiles, fidx, outputs, nfaces, faceNo, results, cur,
          appended, log, fileLog, fimg, fcount, fdet, fverdict, cropped_faces>>

shared == <<fileExists, disk, artifacts, cls_instance, services, svcIndex, reloads, appended>>
batch == <<nfiles, fidx, outputs, fileLog>>
image == <<nfaces, faceNo, results, cur, log>>
filt == <<fimg, fcount, fdet, fverdict, cropped_faces>>

(* ----------------------- the similarity index -------------------------- *)
ntotal(index) == Len(index)

\* index.search(emb, k=1): the entry of greatest inner product, the earliest on a tie.
\* Returns <<D[0][0], I[0][0]>>, the rank 0-based.
RECURSIVE BestFrom(_, _, _, _, _)
BestFrom(index, emb, i, bestSim, bestIdx) ==
    IF i > Len(index) THEN <<bestSim, bestIdx>>
    ELSE IF Dot(index[i], emb) > bestSim
         THEN BestFrom(index, emb, i + 1, Dot(index[i], emb), i - 1)
         ELSE BestFrom(index, emb, i + 1, bestSim, bestIdx)

search(index, emb) == BestFrom(index, emb, 2, Dot(index[1], emb), 0)

\* services.py 38-44
nearest(index, emb) ==
    IF ntotal(index) = 0 THEN <<0, -1>> ELSE search(index, emb)

\* variant: the comparison admits equality
is_match_ge(similarity) == similarity >= THRESHOLD

\* services.py 46
is_match(similarity) == similarity > THRESHOLD

\* variant: an absent file yields an empty index, as the function's name suggests
load_or_create_index_empty ==
    IF ~fileExists THEN [ok |-> TRUE, index |-> <<>>]
    ELSE [ok |-> TRUE, index |-> disk]

\* utils.py 24-32: raises FileNotFoundError when the file is absent
load_or_create_index ==
    IF ~fileExists THEN [ok |-> FALSE, index |-> <<>>]
    ELSE [ok |-> TRUE, index |-> disk]

\* utils.save_new_customer_face(crop): the Enrollment Store's saveNewFace.  It persists
\* the crop and returns its path, or fails.
save_new_customer_face(face, works) ==
    IF works THEN [ok |-> TRUE, saved |-> {face}, path |-> face]
    ELSE [ok |-> FALSE, saved |-> {}, path |-> NoPath]

(* ------------------------------ state ---------------------------------- *)
InitIndexes == UNION {[1..n -> Emb] : n \in 0..MaxInit}

ServiceInit ==
    /\ fileExists \in BOOLEAN
    /\ disk \in (IF fileExists THEN InitIndexes ELSE {<<>>})
    /\ artifacts = {}
    /\ cls_instance = None
    /\ services = {}
    /\ svcIndex = [s \in Threads |-> <<>>]
    /\ reloads = 0
    /\ tmpCount = 0
    /\ pc = [t \in Threads |-> "idle"]
    /\ svc = [t \in Threads |-> None]
    /\ nfiles = [t \in Threads |-> 0]
    /\ fidx = [t \in Threads |-> 0]
    /\ outputs = [t \in Threads |-> <<>>]
    /\ nfaces = [t \in Threads |-> 0]
    /\ faceNo = [t \in Threads |-> 0]
    /\ results = [t \in Threads |-> <<>>]
    /\ cur = [t \in Threads |-> <<>>]
    /\ appended = {}
    /\ log = [t \in Threads |-> <<>>]
    /\ fileLog = [t \in Threads |-> <<>>]

\* no image is being filtered
FilterIdle ==
    /\ fimg = [w |-> 0, h |-> 0]
    /\ fcount = 0
    /\ fdet = <<>>
    /\ fverdict = "none"
    /\ cropped_faces = <<>>

Init == ServiceInit /\ FilterIdle

(* ------------------- RecognitionService.instance() --------------------- *)
RECURSIVE Sum(_, _)
Sum(f, S) == IF S = {} THEN 0 ELSE LET x == CHOOSE y \in S : TRUE IN f[x] + Sum(f, S \ {x})

\* the files submitted so far, over all requests (at most MaxFiles)
Submitted == Sum(nfiles, Threads)

\* A request arrives: recognize_batch / process_images_directly is entered.
Start(t) ==
    /\ pc[t] = "idle"
    /\ \E n \in 0..MaxFiles :
          /\ n + Submitted <= MaxFiles
          /\ nfiles' = [nfiles EXCEPT ![t] = n]
          /\ pc' = [pc EXCEPT ![t] = IF n = 0 THEN "http400" ELSE "instance"]
    /\ UNCHANGED <<shared, tmpCount, svc, fidx, outputs, fileLog, image>>

    /\ UNCHANGED filt
\* services.py 20-21: the two reads of cls._instance
InstanceCheck(t) ==
    /\ pc[t] = "instance"
    /\ pc' = [pc EXCEPT ![t] = IF cls_instance = None THEN "construct" ELSE "return"]
    /\ UNCHANGED <<shared, tmpCount, svc, batch, image>>

    /\ UNCHANGED filt
\* services.py 22, right-hand side: RecognitionService() runs __init__
Construct(t) ==
    /\ pc[t] = "construct"
    /\ LET r == load_or_create_index IN
          IF r.ok
          THEN /\ services' = services \cup {t}
               /\ svcIndex' = [svcIndex EXCEPT ![t] = r.index]
               /\ pc' = [pc EXCEPT ![t] = "assign"]
          ELSE /\ pc' = [pc EXCEPT ![t] = "failed"]
               /\ UNCHANGED <<services, svcIndex>>
    /\ UNCHANGED <<fileExists, disk, artifacts, cls_instance, reloads, appended,
                   tmpCount, svc, batch, image>>

    /\ UNCHANGED filt
\* services.py 22, the assignment to cls._instance
Assign(t) ==
    /\ pc[t] = "assign"
    /\ cls_instance' = t
    /\ pc' = [pc EXCEPT ![t] = "return"]
    /\ UNCHANGED <<fileExists, disk, artifacts, services, svcIndex, reloads, appended,
                   tmpCount, svc, batch, image>>

    /\ UNCHANGED filt
\* services.py 23
Return(t) ==
    /\ pc[t] = "return"
    /\ svc' = [svc EXCEPT ![t] = cls_instance]
    /\ pc' = [pc EXCEPT ![t] = "file"]
    /\ UNCHANGED <<shared, tmpCount, batch, image>>

    /\ UNCHANGED filt
\* services.py 25-27 (the index file is never removed once a service exists)
reload_index(s) ==
    /\ s \in services
    /\ reloads < MaxReloads
    /\ load_or_create_index.ok
    /\ svcIndex' = [svcIndex EXCEPT ![s] = load_or_create_index.index]
    /\ reloads' = reloads + 1
    /\ UNCHANGED <<fileExists, disk, artifacts, cls_instance, services, appended,
                   tmpCount, pc, svc, batch, image>>

    /\ UNCHANGED filt
(* --------------- recognize_batch / process_images_directly ------------- *)
FaceId(t) == <<t, fidx[t], faceNo[t]>>

\* RecognizePerImage(filename=..., num_faces=0, results=[])
ZeroFaces(name) == [filename |-> name, num_faces |-> 0, results |-> <<>>]

\* variant: the exception leaves the loop, the rest of the batch is dropped
Except_abort(t) ==
    /\ outputs' = [outputs EXCEPT ![t] = Append(@, ZeroFaces(fidx[t]))]
    /\ fileLog' = [fileLog EXCEPT ![t] = Append(@, "raised")]
    /\ pc' = [pc EXCEPT ![t] = "done"]
    /\ nfaces' = [nfaces EXCEPT ![t] = 0]
    /\ faceNo' = [faceNo EXCEPT ![t] = 0]
    /\ results' = [results EXCEPT ![t] = <<>>]
    /\ cur' = [cur EXCEPT ![t] = <<>>]
    /\ UNCHANGED <<nfiles, fidx>>

\* api.py 96-105: the except clause appends a zero-face entry, the loop goes on
Except(t) ==
    /\ outputs' = [outputs EXCEPT ![t] = Append(@, ZeroFaces(fidx[t]))]
    /\ fileLog' = [fileLog EXCEPT ![t] = Append(@, "raised")]
    /\ pc' = [pc EXCEPT ![t] = "file"]
    /\ nfaces' = [nfaces EXCEPT ![t] = 0]
    /\ faceNo' = [faceNo EXCEPT ![t] = 0]
    /\ results' = [results EXCEPT ![t] = <<>>]
    /\ cur' = [cur EXCEPT ![t] = <<>>]
    /\ UNCHANGED <<nfiles, fidx>>

Logged(t, what) ==
    [file |-> fidx[t], face |-> faceNo[t], emb |-> cur[t].emb, outcome |-> what,
     similarity |-> cur[t].similarity, index |-> cur[t].index, rank |-> cur[t].rank]

\* api.py 62-89: the head of the loop, up to the call of recognize_image_path
NextFile(t) ==
    /\ pc[t] = "file"
    /\ fidx[t] < nfiles[t]
    /\ fidx' = [fidx EXCEPT ![t] = @ + 1]
    /\ \E kind \in {"unnamed", "empty", "undecodable", "ok"} :
          /\ fileLog' = [fileLog EXCEPT ![t] = IF kind = "ok" THEN @ ELSE Append(@, kind)]
          /\ outputs' = [outputs EXCEPT ![t] =
                 IF kind = "ok" THEN @
                 ELSE Append(@, ZeroFaces(IF kind = "unnamed" THEN 0 ELSE fidx[t] + 1))]
          /\ pc' = [pc EXCEPT ![t] = IF kind = "ok" THEN "detect" ELSE "file"]
          /\ tmpCount' = IF kind = "ok" THEN tmpCount + 1 ELSE tmpCount
    /\ UNCHANGED <<shared, svc, nfiles, image>>

    /\ UNCHANGED filt
\* api.py 106-107: the loop is over, the response is returned
Respond(t) ==
    /\ pc[t] = "file"
    /\ fidx[t] = nfiles[t]
    /\ pc' = [pc EXCEPT ![t] = "done"]
    /\ UNCHANGED <<shared, tmpCount, svc, batch, image>>

    /\ UNCHANGED filt
(* ---------------- RecognitionService.recognize_image_path -------------- *)
\* services.py 31: detect_faces_and_crop returns the crops or raises
Detect(t) ==
    /\ pc[t] = "detect"
    /\ \/ /\ \E n \in 0..MaxFaces : nfaces' = [nfaces EXCEPT ![t] = n]
          /\ pc' = [pc EXCEPT ![t] = "face"]
          /\ UNCHANGED <<tmpCount, batch, faceNo, results, cur>>
       \/ /\ Except(t)
          /\ tmpCount' = tmpCount - 1
    /\ UNCHANGED <<shared, svc, log>>

    /\ UNCHANGED filt
\* services.py 73 and api.py 92-94: the faces are exhausted, the image's entry is appended
ReturnResults(t) ==
    /\ pc[t] = "face"
    /\ faceNo[t] = nfaces[t]
    /\ outputs' = [outputs EXCEPT ![t] = Append(@,
           [filename |-> fidx[t], num_faces |-> Len(results[t]), results |-> results[t]])]
    /\ fileLog' = [fileLog EXCEPT ![t] = Append(@, "ok")]
    /\ tmpCount' = tmpCount - 1
    /\ pc' = [pc EXCEPT ![t] = "file"]
    /\ nfaces' = [nfaces EXCEPT ![t] = 0]
    /\ faceNo' = [faceNo EXCEPT ![t] = 0]
    /\ results' = [results EXCEPT ![t] = <<>>]
    /\ UNCHANGED <<shared, svc, nfiles, fidx, cur, log>>

    /\ UNCHANGED filt
\* services.py 35-36: the crop is written to a temporary file and embedded;
\* compute_embedding_from_path raises outside the try, so the file stays
Embed(t) ==
    /\ pc[t] = "face"
    /\ faceNo[t] < nfaces[t]
    /\ \/ /\ \E e \in Emb :
                cur' = [cur EXCEPT ![t] =
                          [emb |-> e, similarity |-> 0, index |-> -1, rank |-> -1,
                           saved_path |-> NoPath]]
          /\ faceNo' = [faceNo EXCEPT ![t] = @ + 1]
          /\ pc' = [pc EXCEPT ![t] = "search"]
          /\ tmpCount' = tmpCount + 1
          /\ UNCHANGED <<batch, nfaces, results>>
       \/ /\ Except(t)
          /\ tmpCount' = tmpCount + 1 - 1
    /\ UNCHANGED <<shared, svc, log>>

    /\ UNCHANGED filt
\* services.py 38-46 and 60-72: the search, the decision and the Returning branch
Search(t) ==
    /\ pc[t] = "search"
    /\ LET nn == nearest(svcIndex[svc[t]], cur[t].emb)
           c == [cur[t] EXCEPT !.similarity = nn[1], !.index = nn[2]]
       IN IF is_match(nn[1])
          THEN /\ results' = [results EXCEPT ![t] = Append(@,
                      [is_returning |-> TRUE, similarity |-> nn[1], index |-> nn[2],
                       saved_path |-> NoPath])]
               /\ log' = [log EXCEPT ![t] = Append(@,
                      [file |-> fidx[t], face |-> faceNo[t], emb |-> c.emb,
                       outcome |-> "returning", similarity |-> nn[1], index |-> nn[2],
                       rank |-> -1])]
               /\ cur' = [cur EXCEPT ![t] = <<>>]
               /\ tmpCount' = tmpCount - 1
               /\ pc' = [pc EXCEPT ![t] = "face"]
          ELSE /\ cur' = [cur EXCEPT ![t] = c]
               /\ pc' = [pc EXCEPT ![t] = "save"]
               /\ UNCHANGED <<results, log, tmpCount>>
    /\ UNCHANGED <<shared, svc, batch, nfaces, faceNo>>

    /\ UNCHANGED filt
\* an enrollment step raises: the finally removes the crop's file (services.py 68-72),
\* recognize_batch's except and finally run (api.py 96-105)
EnrollRaise(t) ==
    /\ Except(t)
    /\ log' = [log EXCEPT ![t] = Append(@, Logged(t, "failed"))]
    /\ tmpCount' = tmpCount - 2

\* services.py 49: save_new_customer_face saves the crop or raises
SaveFace(t) ==
    /\ pc[t] = "save"
    /\ \E works \in BOOLEAN :
          LET r == save_new_customer_face(FaceId(t), works) IN
          /\ artifacts' = artifacts \cup r.saved
          /\ IF r.ok
             THEN /\ cur' = [cur EXCEPT ![t].saved_path = r.path]
                  /\ pc' = [pc EXCEPT ![t] = "add"]
                  /\ UNCHANGED <<tmpCount, batch, nfaces, faceNo, results, log>>
             ELSE EnrollRaise(t)
    /\ UNCHANGED <<fileExists, disk, cls_instance, services, svcIndex, reloads, appended, svc>>

    /\ UNCHANGED filt
\* variant: the embedding is added to a copy of the index, self.index does not see it
IndexAdd_copy(t) ==
    /\ pc[t] = "add"
    /\ \/ /\ appended' = appended \cup {FaceId(t)}
          /\ cur' = [cur EXCEPT ![t].rank = ntotal(svcIndex[svc[t]])]
          /\ pc' = [pc EXCEPT ![t] = "write"]
          /\ UNCHANGED <<svcIndex, tmpCount, batch, nfaces, faceNo, results, log>>
       \/ /\ EnrollRaise(t)
          /\ UNCHANGED <<svcIndex, appended>>
    /\ UNCHANGED <<fileExists, disk, artifacts, cls_instance, services, reloads, svc>>

    /\ UNCHANGED filt
\* variant: a failure of index.add is swallowed and the enrollment goes on
IndexAdd_swallow(t) ==
    /\ pc[t] = "add"
    /\ \/ /\ svcIndex' = [svcIndex EXCEPT ![svc[t]] = Append(@, cur[t].emb)]
          /\ appended' = appended \cup {FaceId(t)}
          /\ cur' = [cur EXCEPT ![t].rank = ntotal(svcIndex[svc[t]])]
       \/ /\ cur' = [cur EXCEPT ![t].rank = ntotal(svcIndex[svc[t]])]
          /\ UNCHANGED <<svcIndex, appended>>
    /\ pc' = [pc EXCEPT ![t] = "write"]
    /\ UNCHANGED <<tmpCount, batch, nfaces, faceNo, results, log>>
    /\ UNCHANGED <<fileExists, disk, artifacts, cls_instance, services, reloads, svc>>

    /\ UNCHANGED filt
\* services.py 50: self.index.add(emb) appends or raises
IndexAdd(t) ==
    /\ pc[t] = "add"
    /\ \/ /\ svcIndex' = [svcIndex EXCEPT ![svc[t]] = Append(@, cur[t].emb)]
          /\ appended' = appended \cup {FaceId(t)}
          /\ cur' = [cur EXCEPT ![t].rank = ntotal(svcIndex[svc[t]])]
          /\ pc' = [pc EXCEPT ![t] = "write"]
          /\ UNCHANGED <<tmpCount, batch, nfaces, faceNo, results, log>>
       \/ /\ EnrollRaise(t)
          /\ UNCHANGED <<svcIndex, appended>>
    /\ UNCHANGED <<fileExists, disk, artifacts, cls_instance, services, reloads, svc>>

    /\ UNCHANGED filt
\* services.py 51-59 and 68-72: faiss.write_index rewrites the file or raises;
\* then the New result is appended
WriteIndex(t) ==
    /\ pc[t] = "write"
    /\ \/ /\ disk' = svcIndex[svc[t]]
          /\ fileExists' = TRUE
          /\ results' = [results EXCEPT ![t] = Append(@,
                 [is_returning |-> FALSE, similarity |-> cur[t].similarity,
                  index |-> cur[t].index, saved_path |-> cur[t].saved_path])]
          /\ log' = [log EXCEPT ![t] = Append(@, Logged(t, "new"))]
          /\ cur' = [cur EXCEPT ![t] = <<>>]
          /\ tmpCount' = tmpCount - 1
          /\ pc' = [pc EXCEPT ![t] = "face"]
          /\ UNCHANGED <<batch, nfaces, faceNo>>
       \/ /\ EnrollRaise(t)
          /\ UNCHANGED <<fileExists, disk>>
    /\ UNCHANGED <<artifacts, cls_instance, services, svcIndex, reloads, appended, svc>>

    /\ UNCHANGED filt
(* --------------------------- specification ----------------------------- *)
Handler(t) ==
    \/ Start(t)
    \/ InstanceCheck(t)
    \/ Construct(t)
    \/ Assign(t)
    \/ Return(t)
    \/ NextFile(t)
    \/ Respond(t)
    \/ Detect(t)
    \/ ReturnResults(t)
    \/ Embed(t)
    \/ Search(t)
    \/ SaveFace(t)
    \/ IndexAdd(t)
    \/ WriteIndex(t)

Next ==
    \/ \E t \in Threads : Handler(t)
    \/ \E s \in Threads : reload_index(s)

Spec == Init /\ [][Next]_vars

TypeOK ==
    /\ fileExists \in BOOLEAN
    /\ cls_instance \in Threads \cup {None}
    /\ services \subseteq Threads
    /\ tmpCount \in Nat
    /\ \A t \in Threads : Len(outputs[t]) <= nfiles[t]

\* one request alone: a single handler works through its batch, nothing else runs
NextBatch == Handler("h1")

SpecBatch == Init /\ [][NextBatch]_vars

(* ---------------------- utils.detect_faces_and_crop --------------------- *)
MaxDetections == 2

\* edge_margin_ratio = 0.005 and profile_threshold = 0.6, as fractions
EdgeMarginNum == 5
EdgeMarginDen == 1000
ProfileNum == 6
ProfileDen == 10

\* dict.get(key, default)
Get(d, key, default) == IF key \in DOMAIN d THEN d[key] ELSE default

Abs(n) == IF n < 0 THEN -n ELSE n
Min(a, b) == IF a < b THEN a ELSE b
Max(a, b) == IF a < b THEN b ELSE a

\* the images and the detector outputs that are gone through
Dims == {1000, 1200}
Pos == {4, 5, 6}
Ext == {0, 989, 990}

Boxes == {[x |-> x, y |-> y, w |-> w, h |-> h] : x \in Pos, y \in Pos, w \in Ext, h \in Ext}

Landmarks ==
    { [left_eye |-> <<100, 50>>, right_eye |-> <<200, 50>>, nose |-> <<150, 60>>],
      [left_eye |-> <<100, 50>>, right_eye |-> <<200, 50>>, nose |-> <<210, 60>>],
      [left_eye |-> <<100, 50>>, right_eye |-> <<200, 50>>, nose |-> <<211, 60>>],
      [left_eye |-> <<100, 50>>, right_eye |-> <<160, 130>>, nose |-> <<190, 90>>],
      [left_eye |-> <<100, 50>>, right_eye |-> <<100, 50>>, nose |-> <<100, 60>>],
      [left_eye |-> <<100, 50>>, right_eye |-> <<200, 50>>] }

NoFacialArea == [k \in {} |-> 0]

Detections == Boxes \cup {b @@ l : b \in Boxes, l \in Landmarks} \cup {NoFacialArea}

\* variant: a side on the margin counts as near the edge
near_edge_inclusive(area, img) ==
    LET x == Get(area, "x", 0)
        y == Get(area, "y", 0)
        fw == Get(area, "w", 0)
        fh == Get(area, "h", 0)
    IN \/ x * EdgeMarginDen <= img.w * EdgeMarginNum
       \/ y * EdgeMarginDen <= img.h * EdgeMarginNum
       \/ (x + fw) * EdgeMarginDen >= img.w * (EdgeMarginDen - EdgeMarginNum)
       \/ (y + fh) * EdgeMarginDen >= img.h * (EdgeMarginDen - EdgeMarginNum)

\* utils.py 77-85: the edge filter
near_edge(area, img) ==
    LET x == Get(area, "x", 0)
        y == Get(area, "y", 0)
        fw == Get(area, "w", 0)
        fh == Get(area, "h", 0)
    IN \/ x * EdgeMarginDen < img.w * EdgeMarginNum
       \/ y * EdgeMarginDen < img.h * EdgeMarginNum
       \/ (x + fw) * EdgeMarginDen > img.w * (EdgeMarginDen - EdgeMarginNum)
       \/ (y + fh) * EdgeMarginDen > img.h * (EdgeMarginDen - EdgeMarginNum)

\* utils.py 87-89: crop = img[y : y + fh, x : x + fw] and its size
crop_size(area, img) ==
    Max(0, Min(area.x + area.w, img.w) - area.x) * Max(0, Min(area.y + area.h, img.h) - area.y)

\* utils.py 91-105: landmarks is the facial_area dict, a missing key reads as [0, 0];
\* asymmetry_ratio > profile_threshold, compared after squaring both sides
side_profile(area) ==
    /\ DOMAIN area # {}
    /\ LET left_eye == Get(area, "left_eye", <<0, 0>>)
           right_eye == Get(area, "right_eye", <<0, 0>>)
           nose == Get(area, "nose", <<0, 0>>)
           eye_distance_sq == (left_eye[1] - right_eye[1]) * (left_eye[1] - right_eye[1])
                              + (left_eye[2] - right_eye[2]) * (left_eye[2] - right_eye[2])
           nose_to_center_x2 == Abs(left_eye[1] + right_eye[1] - 2 * nose[1])
       IN IF eye_distance_sq > 0
          THEN (nose_to_center_x2 * ProfileDen) * (nose_to_center_x2 * ProfileDen)
                  > (2 * ProfileNum) * (2 * ProfileNum) * eye_distance_sq
          ELSE 1 * ProfileDen > ProfileNum

\* utils.py 68-107: the body of the loop, for one detection
Verdict(area, img) ==
    IF Get(area, "w", 0) <= 0 \/ Get(area, "h", 0) <= 0 THEN "box"
    ELSE IF near_edge(area, img) THEN "edge"
    ELSE IF crop_size(area, img) = 0 THEN "empty"
    ELSE IF side_profile(area) THEN "profile"
    ELSE "kept"

Crop(area) == <<area.x, area.y, area.w, area.h>>

\* the service is idle while an image is filtered
ServiceIdle == ServiceInit /\ ~fileExists

InitFilter ==
    /\ ServiceIdle
    /\ fimg \in {[w |-> iw, h |-> ih] : iw \in Dims, ih \in Dims}
    /\ fcount = 0
    /\ fdet = <<>>
    /\ fverdict = "none"
    /\ cropped_faces = <<>>

\* utils.py 67-107: one turn of the loop over the detections
FilterDetection ==
    /\ fcount < MaxDetections
    /\ \E area \in Detections :
          /\ fdet' = area
          /\ fverdict' = Verdict(area, fimg)
          /\ cropped_faces' = IF Verdict(area, fimg) = "kept"
                              THEN Append(cropped_faces, Crop(area))
                              ELSE cropped_faces
    /\ fcount' = fcount + 1
    /\ UNCHANGED <<fimg, shared, tmpCount, pc, svc, batch, image>>

NextFilter == FilterDetection

SpecFilter == InitFilter /\ [][NextFilter]_vars

(* ------------------------------ helpers -------------------------------- *)
SameIdentity(a, b) == Dot(a, b) > THRESHOLD

IsPrefix(p, q) == Len(p) <= Len(q) /\ \A i \in 1..Len(p) : p[i] = q[i]

\* the greatest inner product of emb with an entry of a non-empty index
MaxSim(index, emb) ==
    CHOOSE m \in {Dot(index[i], emb) : i \in DOMAIN index} :
        \A i \in DOMAIN index : Dot(index[i], emb) <= m

\* every result a caller has been handed or is about to be handed
Reported(t) ==
    {results[t][k] : k \in DOMAIN results[t]}
    \cup UNION {{outputs[t][i].results[k] : k \in DOMAIN outputs[t][i].results} :
                 i \in DOMAIN outputs[t]}

InEnrollment(t) == pc[t] \in {"save", "add", "write"}

(* ------------------------------- claims -------------------------------- *)
\* C1: two concurrent recognize_image_path calls on the one shared service, each for
\* one face of the same identity, never both decide New.
C1_NeverTwoNew ==
    \A t1 \in Threads : \A t2 \in Threads \ {t1} :
        (svc[t1] = svc[t2] /\ reloads = 0) =>
            \A i \in DOMAIN log[t1] : \A j \in DOMAIN log[t2] :
                ~ /\ log[t1][i].outcome = "new"
                  /\ log[t2][j].outcome = "new"
                  /\ SameIdentity(log[t1][i].emb, log[t2][j].emb)

\* C2: in one batch, when a face is decided New and the next face carries the same
\* identity (and matches nothing enrolled before the first), the next face is decided
\* Returning and its matched rank is the rank at which the first was enrolled.
C2_SecondMatchesFirst ==
    \A t \in Threads : \A i \in DOMAIN log[t] :
        (/\ i + 1 \in DOMAIN log[t]
         /\ log[t][i].outcome = "new"
         /\ SameIdentity(log[t][i].emb, log[t][i + 1].emb)
         /\ \A k \in 1..log[t][i].rank :
               ~SameIdentity(svcIndex[svc[t]][k], log[t][i + 1].emb))
        => /\ log[t][i + 1].outcome = "returning"
           /\ log[t][i + 1].index = log[t][i].rank

C2_Witness ==
    \E i \in DOMAIN log["h1"] :
        /\ i + 1 \in DOMAIN log["h1"]
        /\ log["h1"][i].outcome = "new"
        /\ log["h1"][i].rank = 1
        /\ log["h1"][i + 1].outcome = "returning"
        /\ log["h1"][i + 1].index = 1
        /\ log["h1"][i + 1].file # log["h1"][i].file

\* C3: a New result is handed to the caller only for a face whose embedding was
\* appended, and an embedding is appended only for a face whose crop was saved.
C3_NewOnlyIfEnrolled ==
    /\ \A t \in Threads : \A r \in Reported(t) :
          ~r.is_returning => r.saved_path \in appended
    /\ appended \subseteq artifacts

C3_Witness ==
    /\ \E t \in Threads : \E i \in DOMAIN outputs[t] : \E k \in DOMAIN outputs[t][i].results :
          ~outputs[t][i].results[k].is_returning
    /\ artifacts # appended

\* C4: whenever no recognize_image_path call is in the middle of an enrollment, the
\* persisted index holds exactly the entries of the service's in-memory index.
C4_DiskEqualsMemory ==
    (/\ Cardinality(services) = 1
     /\ \A t \in Threads : ~InEnrollment(t))
    => \A s \in services : svcIndex[s] = disk

\* C5: a face is decided Returning exactly when the index is non-empty and its nearest
\* similarity is strictly greater than THRESHOLD; on an empty index the similarity is 0
\* and the decision is New.
C5_DecisionRule ==
    [][\A t \in Threads :
          (pc[t] = "search" /\ pc'[t] # "search") =>
              LET index == svcIndex[svc[t]]
                  returning == pc'[t] = "face"
              IN /\ returning <=>
                      (ntotal(index) > 0 /\ MaxSim(index, cur[t].emb) > THRESHOLD)
                 /\ returning =>
                      /\ Len(log'[t]) = Len(log[t]) + 1
                      /\ log'[t][Len(log'[t])].outcome = "returning"
                      /\ log'[t][Len(log'[t])].similarity = MaxSim(index, cur[t].emb)
                 /\ ~returning =>
                      /\ pc'[t] = "save"
                      /\ cur'[t].similarity =
                            IF ntotal(index) = 0 THEN 0 ELSE MaxSim(index, cur[t].emb)
    ]_vars

C5_Witness ==
    \E t \in Threads : \E i \in DOMAIN log[t] :
        /\ log[t][i].outcome = "new"
        /\ log[t][i].similarity = THRESHOLD
        /\ log[t][i].index >= 0

\* C6: a batch that returns has one entry per submitted file, in submission order; a
\* file that is unnamed, empty, undecodable or whose processing raised has num_faces 0
\* and no results, and the files after it are processed.
C6_OneEntryPerFile ==
    \A t \in Threads :
        /\ pc[t] = "done" => Len(outputs[t]) = nfiles[t]
        /\ Len(outputs[t]) = Len(fileLog[t])
        /\ \A i \in DOMAIN outputs[t] :
              /\ outputs[t][i].filename = (IF fileLog[t][i] = "unnamed" THEN 0 ELSE i)
              /\ outputs[t][i].num_faces = Len(outputs[t][i].results)
              /\ fileLog[t][i] # "ok" => outputs[t][i] = ZeroFaces(outputs[t][i].filename)

C6_Witness ==
    \E t \in Threads :
        /\ pc[t] = "done"
        /\ nfiles[t] = 2
        /\ fileLog[t][1] = "raised"
        /\ \E i \in DOMAIN log[t] : log[t][i].outcome = "failed" /\ log[t][i].file = 1
        /\ outputs[t][2].num_faces > 0

\* C7: a face whose artifact save or index write failed is reported to the caller as a
\* per-face error, an entry that is neither New nor Returning.
PerFaceError(r) == r.is_returning \notin BOOLEAN

C7_FailureReportedPerFace ==
    \A t \in Threads : \A i \in DOMAIN log[t] :
        (log[t][i].outcome = "failed" /\ log[t][i].file \in DOMAIN outputs[t])
        => \E k \in DOMAIN outputs[t][log[t][i].file].results :
              PerFaceError(outputs[t][log[t][i].file].results[k])

\* C8: instance() hands the same service to every caller, and the index is loaded once.
C8_OneInstance ==
    /\ Cardinality(services) <= 1
    /\ \A t1 \in Threads : \A t2 \in Threads :
          (svc[t1] # None /\ svc[t2] # None) => svc[t1] = svc[t2]

\* C9: between recognize calls the index only grows: no step shrinks a service's index
\* or changes the entry at a rank already assigned.
C9_AppendOnly ==
    [][(\A t \in Threads : pc[t] # "write") =>
          \A s \in services : IsPrefix(svcIndex[s], svcIndex'[s])]_vars

\* C10: while the index file is absent, construction fails: no service and no index
\* come to exist, the file stays absent, and every call of instance() ends in the error.
C10_AbsentIndexFails ==
    [][~fileExists =>
          /\ ~fileExists'
          /\ disk' = <<>>
          /\ services' = {}
          /\ cls_instance' = None
          /\ \A t \in Threads :
                /\ svc'[t] = None
                /\ pc'[t] \in {"idle", "http400", "instance", "construct", "failed"}
                /\ (pc[t] = "construct" /\ pc'[t] # "construct") => pc'[t] = "failed"
    ]_vars

C10_Witness ==
    /\ ~fileExists
    /\ \A t \in Threads : pc[t] = "failed"

\* C13: when a request has completed, the faces it enrolled (appended and written to
\* the index file) are as many as the New decisions in its response.
NewDecisions(t) ==
    Sum([i \in DOMAIN outputs[t] |->
            Cardinality({k \in DOMAIN outputs[t][i].results :
                            ~outputs[t][i].results[k].is_returning})],
        DOMAIN outputs[t])

C13_AddedEqualsReportedNew ==
    \A t \in Threads :
        pc[t] = "done" =>
            Cardinality({i \in DOMAIN log[t] : log[t][i].outcome = "new"}) = NewDecisions(t)

\* C14: when no request is at work on an image, every temporary file has been removed.
AtWorkOnImage(t) == pc[t] \in {"detect", "face", "search", "save", "add", "write"}

C14_NoTempFileLeft ==
    (\A t \in Threads : ~AtWorkOnImage(t)) => tmpCount = 0

\* what the last detection gone through looks like
Examined == fcount > 0 /\ DOMAIN fdet # {} /\ fdet.w > 0 /\ fdet.h > 0

Kept == fverdict = "kept" /\ cropped_faces[Len(cropped_faces)] = Crop(fdet)

\* the least distance, on each axis, between a side of the box and the image's edge
GapW == Min(fdet.x, fimg.w - (fdet.x + fdet.w))
GapH == Min(fdet.y, fimg.h - (fdet.y + fdet.h))

Crosses ==
    \/ GapW * EdgeMarginDen < fimg.w * EdgeMarginNum
    \/ GapH * EdgeMarginDen < fimg.h * EdgeMarginNum

Touches ==
    /\ ~Crosses
    /\ \/ GapW * EdgeMarginDen = fimg.w * EdgeMarginNum
       \/ GapH * EdgeMarginDen = fimg.h * EdgeMarginNum

\* C11 as stated: a detection whose box touches or crosses the edge margin is excluded.
C11_TouchingExcluded ==
    (Examined /\ (Touches \/ Crosses)) => ~Kept

\* C11 as amended: a detection is excluded by the edge filter exactly when a side of its
\* box crosses the edge margin; a box with a side exactly on the margin is not excluded
\* by it, and is retained when the profile filter passes it.
C11_CrossingExcluded ==
    Examined =>
        /\ (fverdict = "edge") <=> Crosses
        /\ Crosses => ~Kept
        /\ (~Crosses /\ ~side_profile(fdet)) => Kept

C11_Witness ==
    /\ Examined
    /\ fimg.w = 1000
    /\ fdet.x = 5
    /\ fdet.x + fdet.w = 995
    /\ Touches
    /\ Kept

\* C12: a detection that passed the box and edge checks is rejected by the profile filter
\* exactly when left eye, right eye and nose are available and the eye distance is zero
\* or the asymmetry exceeds profile_threshold.
LandmarksAvailable == {"left_eye", "right_eye", "nose"} \subseteq DOMAIN fdet

EyeDistanceSq ==
    (fdet.left_eye[1] - fdet.right_eye[1]) * (fdet.left_eye[1] - fdet.right_eye[1])
    + (fdet.left_eye[2] - fdet.right_eye[2]) * (fdet.left_eye[2] - fdet.right_eye[2])

\* |midpoint(eyes).x - nose.x| / eye distance > ProfileNum / ProfileDen, squared
AsymmetryExceeds ==
    LET twice == Abs(fdet.left_eye[1] + fdet.right_eye[1] - 2 * fdet.nose[1])
    IN (twice * ProfileDen) * (twice * ProfileDen)
          > (2 * ProfileNum) * (2 * ProfileNum) * EyeDistanceSq

C12_ProfileFilter ==
    (Examined /\ fverdict \in {"profile", "kept"}) =>
        ((fverdict = "profile") <=>
            (LandmarksAvailable /\ (EyeDistanceSq = 0 \/ AsymmetryExceeds)))

====
